---- MODULE Spec2Model ----
(***************************************************************************)
(* A model of src/src/repl.ts: the REPLServer request/reply correlation    *)
(* layer (request, onmessage, onclose, onerror, ready), the evaluation     *)
(* state machine REPLServer.eval, and the pure helper SafeInspect.         *)
(*                                                                         *)
(* start() drives it: with a non-empty singleshotCode it evaluates that    *)
(* code and exits, without it every line typed starts an evaluation.       *)
(*                                                                         *)
(* JavaScript runs one task at a time.  A websocket event or the start of  *)
(* an evaluation is a task; the code after an `await` is a continuation    *)
(* that runs as soon as the awaited promise is settled and before the next *)
(* task.  Tasks are therefore guarded by ~MicrotaskPending.                *)
(***************************************************************************)
EXTENDS Integers, Sequences, FiniteSets, TLC

\* Bounds of the model.
MaxReqID == 5   \* request() is called at most this many times in a run
MaxEvals == 2   \* eval() calls that may be in progress at the same time
MaxSrcLen == 5  \* atoms in the text given to tryProcessTopLevelAwait
MaxInfo == 1    \* line handlers of ".info" that may wait for the version at once

VARIABLES
    reqID,        \* REPLServer.#reqID
    pendingReqs,  \* REPLServer.#pendingReqs: request id -> promise callbacks
    promises,     \* the promises made by request() that are still referenced
    nPromises,    \* number of promises request() has created
    wire,         \* request frames the inspector has received and not answered
    sent,         \* every request frame handed to send(), in order
    readyState,   \* WebSocket.readyState
    ready,        \* progress of the REPLServer.ready chain
    globalObjectID, \* REPLServer.#globalObjectID
    GLOBAL,       \* the properties of globalThis the code reads and writes
    evals,        \* the activations of REPLServer.eval
    wsEvent,      \* the websocket event handled by the last step
    start,        \* the arguments of start(): singleshotCode given, printSingleshot
    proc,         \* where start() is, and the exit code once the process has exited
    console,      \* what the last step of start() wrote to stdout and stderr
    si,           \* argument and result of a stand-alone SafeInspect call
    transform,    \* argument and results of tryProcessTopLevelAwait
    awaitingVersion \* line handlers suspended at await tryGetPackageVersion()

vars == <<reqID, pendingReqs, promises, nPromises, wire, sent, readyState,
          ready, globalObjectID, GLOBAL, evals, wsEvent, start, proc, console, si, transform,
          awaitingVersion>>

driver == <<start, proc, console>>

-----------------------------------------------------------------------------
\* JavaScript values, as far as the code distinguishes them.

JSValue(t, n, s) == [t |-> t, n |-> n, s |-> s]
Undefined == JSValue("undefined", 0, "")
BigIntValue(n) == JSValue("bigint", n, "")

\* JSC.Runtime.ObjectPreview: absent, or a list of named properties.
NoPreview == [present |-> FALSE, properties |-> <<>>]
Preview(props) == [present |-> TRUE, properties |-> props]
Property(name, value) == [name |-> name, value |-> value]

\* EvalRemoteObject.  An absent optional field is the value JavaScript treats
\* as falsy: "" for objectId, <<>> for description, "none" for subtype.
RemoteObject(type, subtype, objectId, className, preview, description, value) ==
    [type |-> type, subtype |-> subtype, objectId |-> objectId,
     className |-> className, preview |-> preview, description |-> description,
     value |-> value, wasThrown |-> FALSE, wasRejectedPromise |-> FALSE]

NoObject == RemoteObject("undefined", "none", "", "", NoPreview, <<>>, "")

ObjUndefined == NoObject
ObjNumber == RemoteObject("number", "none", "", "", NoPreview, <<"5">>, "5")
ObjString == RemoteObject("string", "none", "", "", NoPreview, <<>>, "text")
ObjEmptyString == RemoteObject("string", "none", "", "", NoPreview, <<>>, "")
ObjBigInt == RemoteObject("bigint", "none", "", "", NoPreview, <<"1", "2", "3", "n">>, "")
ObjBigIntNeg == RemoteObject("bigint", "none", "", "", NoPreview, <<"-", "7", "n">>, "")
ObjBigIntHex == RemoteObject("bigint", "none", "", "", NoPreview, <<"0", "x", "1", "F", "n">>, "")
ObjBigIntSpace == RemoteObject("bigint", "none", "", "", NoPreview,
                  <<" ", "\f", "5", "U+2028", "n">>, "")
ObjBigIntNoDescription == RemoteObject("bigint", "none", "", "", NoPreview, <<>>, "")
ObjNull == RemoteObject("object", "null", "", "", NoPreview, <<"n", "u", "l", "l">>, "null")
ObjPlain == RemoteObject("object", "none", "o1", "Object", NoPreview, <<>>, "")
ObjNoObjectId == RemoteObject("object", "none", "", "Object", NoPreview, <<>>, "")
ObjError == RemoteObject("object", "error", "o2", "Error", NoPreview, <<>>, "")
ObjIterator == RemoteObject("object", "iterator", "o3", "Array Iterator", NoPreview, <<>>, "")
ObjPromiseRejected ==
    RemoteObject("object", "none", "p1", "Promise",
                 Preview(<<Property("status", "rejected"), Property("reason", "5")>>), <<>>, "")
ObjPromiseFulfilled ==
    RemoteObject("object", "none", "p2", "Promise",
                 Preview(<<Property("status", "fulfilled"), Property("value", "5")>>), <<>>, "")
ObjPromiseNoStatus ==
    RemoteObject("object", "none", "p3", "Promise",
                 Preview(<<Property("value", "rejected")>>), <<>>, "")
ObjPromiseNoPreview == RemoteObject("object", "none", "p4", "Promise", NoPreview, <<>>, "")
ObjPromiseNoObjectId ==
    RemoteObject("object", "none", "", "Promise",
                 Preview(<<Property("status", "rejected")>>), <<>>, "")

\* The results the inspector may give for Runtime.evaluate of the one
\* fragment of a single-shot run.
EvaluateResults ==
    {ObjUndefined, ObjNumber, ObjBigInt, ObjBigIntNeg, ObjBigIntHex, ObjBigIntSpace,
     ObjBigIntNoDescription,
     ObjNull, ObjPlain, ObjNoObjectId, ObjError, ObjIterator,
     ObjPromiseRejected, ObjPromiseFulfilled, ObjPromiseNoStatus,
     ObjPromiseNoPreview, ObjPromiseNoObjectId}
\* The results the inspector may give for Runtime.awaitPromise there.
AwaitResults == {ObjUndefined, ObjNumber, ObjBigInt, ObjPlain, ObjError}
\* The results for the lines of an interactive run, where several evals can
\* be in flight: one result for each way through eval.
LineResults == {ObjNumber, ObjBigInt, ObjPromiseRejected, ObjNoObjectId}
LineAwaitResults == {ObjNumber}
\* The results the inspector may give for Runtime.callFunctionOn.
InspectResults == {ObjString, ObjEmptyString, ObjUndefined}
LineInspectResults == {ObjString, ObjUndefined}

\* JSC.ResponseMap[...]: { result, wasThrown }
Response(result, wasThrown) == [result |-> result, wasThrown |-> wasThrown]
NoResponse == Response(NoObject, FALSE)

\* The JS value a RemoteObject denotes when passed back as a call argument.
ValueOf(obj) ==
    JSValue(obj.type, 0, IF obj.objectId # "" THEN obj.objectId ELSE obj.value)

-----------------------------------------------------------------------------
\* String helpers: a string is a sequence of one-character strings.

Digits == {"0", "1", "2", "3", "4", "5", "6", "7", "8", "9"}
HexLetters == {"a", "b", "c", "d", "e", "f", "A", "B", "C", "D", "E", "F"}
DigitValue(c) ==
    CASE c = "0" -> 0 [] c = "1" -> 1 [] c = "2" -> 2 [] c = "3" -> 3
      [] c = "4" -> 4 [] c = "5" -> 5 [] c = "6" -> 6 [] c = "7" -> 7
      [] c = "8" -> 8 [] c = "9" -> 9
      [] c \in {"a", "A"} -> 10 [] c \in {"b", "B"} -> 11
      [] c \in {"c", "C"} -> 12 [] c \in {"d", "D"} -> 13
      [] c \in {"e", "E"} -> 14 [] c \in {"f", "F"} -> 15

\* The digits of a radix, and the value of a text of such digits.
RadixDigits(radix) == {c \in Digits \cup HexLetters : DigitValue(c) < radix}

RECURSIVE RadixValue(_, _, _)
RadixValue(s, radix, acc) ==
    IF s = <<>> THEN acc
    ELSE RadixValue(Tail(s), radix, acc * radix + DigitValue(Head(s)))

DecimalValue(s, acc) == RadixValue(s, 10, acc)

AllDigits(s) == \A i \in DOMAIN s : s[i] \in Digits

\* The white space StringToBigInt strips from both ends of the text: the 25
\* characters of StrWhiteSpaceChar (WhiteSpace and LineTerminator).  A
\* character is one element of a text; those a string of this module cannot
\* hold are written as the name of their code point.
WhiteSpace ==
    {"\t", "\n", "U+000B", "\f", "\r", " ", "U+00A0", "U+1680",
     "U+2000", "U+2001", "U+2002", "U+2003", "U+2004", "U+2005", "U+2006",
     "U+2007", "U+2008", "U+2009", "U+200A",
     "U+2028", "U+2029", "U+202F", "U+205F", "U+3000", "U+FEFF"}

RECURSIVE Trim(_)
Trim(s) ==
    IF s = <<>> THEN s
    ELSE IF Head(s) \in WhiteSpace THEN Trim(Tail(s))
    ELSE IF s[Len(s)] \in WhiteSpace THEN Trim(SubSeq(s, 1, Len(s) - 1))
    ELSE s

\* The radix a prefix 0x, 0o or 0b stands for; 0 when the text has none.
PrefixRadix(s) ==
    IF Len(s) >= 2 /\ s[1] = "0"
    THEN CASE s[2] \in {"x", "X"} -> 16
           [] s[2] \in {"o", "O"} -> 8
           [] s[2] \in {"b", "B"} -> 2
           [] OTHER -> 0
    ELSE 0

\* String.prototype.slice(0, -1)
SliceDropLast(s) == IF Len(s) = 0 THEN <<>> ELSE SubSeq(s, 1, Len(s) - 1)

\* BigInt(string): the integer, or a SyntaxError.  White space at both ends
\* is stripped; the empty text is 0; a prefix 0x, 0o or 0b is followed by at
\* least one digit of its radix and takes no sign; otherwise the text is an
\* optional sign and at least one decimal digit.
BigInt(s) ==
    LET t == Trim(s)
        radix == PrefixRadix(t)
        SyntaxError == [ok |-> FALSE, n |-> 0]
    IN IF t = <<>> THEN [ok |-> TRUE, n |-> 0]
       ELSE IF radix # 0
       THEN LET digits == SubSeq(t, 3, Len(t))
            IN IF digits # <<>> /\ \A i \in DOMAIN digits : digits[i] \in RadixDigits(radix)
               THEN [ok |-> TRUE, n |-> RadixValue(digits, radix, 0)]
               ELSE SyntaxError
       ELSE IF Head(t) \in {"-", "+"}
       THEN IF Len(t) > 1 /\ AllDigits(Tail(t))
            THEN [ok |-> TRUE,
                  n |-> IF Head(t) = "-" THEN 0 - DecimalValue(Tail(t), 0)
                        ELSE DecimalValue(Tail(t), 0)]
            ELSE SyntaxError
       ELSE IF AllDigits(t) THEN [ok |-> TRUE, n |-> DecimalValue(t, 0)]
            ELSE SyntaxError

-----------------------------------------------------------------------------
\* Map primordials on #pendingReqs.  A promise is named by a positive
\* number; 0 stands for undefined.

MapGet(m, k) == IF k \in DOMAIN m THEN m[k] ELSE 0
MapSet(m, k, v) == [x \in DOMAIN m \cup {k} |-> IF x = k THEN v ELSE m[x]]
\* MapDelete, as a bug would have it: the entry stays
MapDeleteKeeps(m, k) == m

MapDelete(m, k) == [x \in DOMAIN m \ {k} |-> m[x]]
EmptyMap == [x \in {} |-> 0]

-----------------------------------------------------------------------------
\* SafeInspect (lines 20-46).  The inspectors, console.warn and the string
\* coercion are outside the file: env says which of them throw.

InspectOptions(nullish, depth, sorted) ==
    [nullish |-> nullish, depth |-> depth, sorted |-> sorted]
DefaultInspectOptions == InspectOptions(FALSE, "unset", "unset")

InspectEnv(primary, secondary, warn, coercion) ==
    [primary |-> primary, secondary |-> secondary, warn |-> warn, coercion |-> coercion]
AllWorks == InspectEnv("ok", "ok", "ok", "ok")

\* A rendered string: which strategy produced it, and of what value.
Str(by, of) == [by |-> by, of |-> of]
EmptyString == Str("empty", Undefined)

\* Completion of a function body or block.
Return(value, opts) == [kind |-> "return", value |-> value, opts |-> opts]
Throw(opts) == [kind |-> "throw", value |-> EmptyString, opts |-> opts]

\* lines 24-30: the catch block of the inner try
SafeInspectFallback(val, opts, env) ==
    IF opts.nullish THEN Throw(opts)   \* opts.depth of null: TypeError
    ELSE LET o1 == IF opts.depth = "null" THEN [opts EXCEPT !.depth = "Infinity"] ELSE opts
             o2 == IF o1.sorted = "function" THEN [o1 EXCEPT !.sorted = "true"] ELSE o1
         IN IF env.secondary = "ok" THEN Return(Str("Bun.inspect", val), o2)
            ELSE Throw(o2)

\* lines 22-30: the inner try statement
SafeInspectInner(val, opts, env) ==
    IF env.primary = "ok" THEN Return(Str("utl.inspect", val), opts)
    ELSE SafeInspectFallback(val, opts, env)

\* lines 39-44, as a bug would have it: the last catch rethrows
SafeInspectCoerceRethrow(val, opts, env) ==
    IF env.warn # "ok" THEN Throw(opts)
    ELSE IF env.coercion = "throw" THEN Throw(opts)
    ELSE IF env.coercion = "nonstring" THEN Return(EmptyString, opts)
    ELSE Return(Str("coercion", val), opts)

\* lines 32-44: the catch block of the outer try
SafeInspectCoerce(val, opts, env) ==
    IF env.warn # "ok" THEN Return(EmptyString, opts)
    ELSE IF env.coercion = "throw" THEN Return(EmptyString, opts)
    ELSE IF env.coercion = "nonstring" THEN Return(EmptyString, opts)
    ELSE Return(Str("coercion", val), opts)

SafeInspect(val, opts, env) ==
    LET inner == SafeInspectInner(val, opts, env)
    IN IF inner.kind = "return" THEN inner
       ELSE SafeInspectCoerce(val, inner.opts, env)

InspectEnvs ==
    {InspectEnv(p, s, w, c) : p \in {"ok", "throw"}, s \in {"ok", "throw"},
                              w \in {"ok", "throw"}, c \in {"ok", "throw", "nonstring"}}
InspectOptionsSet ==
    {InspectOptions(n, d, s) : n \in BOOLEAN, d \in {"unset", "null", "2"},
                               s \in {"unset", "function", "true"}}
InspectValues == {Undefined, BigIntValue(123), JSValue("object", 0, "nullproto")}

NoCompletion == [kind |-> "none", value |-> EmptyString, opts |-> DefaultInspectOptions]
SafeInspectIdle ==
    [called |-> FALSE, val |-> Undefined, opts |-> DefaultInspectOptions,
     env |-> AllWorks, out |-> NoCompletion]

-----------------------------------------------------------------------------
\* The correlation layer.

\* A request frame { id, method, params }.  params holds the fields the
\* three methods use; for callFunctionOn, fnWasThrown and fnIsError are the
\* two values interpolated into functionDeclaration.
Params(expression, objectId, fnWasThrown, fnIsError, argument) ==
    [expression |-> expression, objectId |-> objectId, fnWasThrown |-> fnWasThrown,
     fnIsError |-> fnIsError, argument |-> argument]
NoParams == Params("", "", FALSE, FALSE, NoObject)
Request(id, method, params) == [id |-> id, method |-> method, params |-> params]

\* A request frame with the inspector; ran is what the inspector has done
\* with the function of a Runtime.callFunctionOn: "no" (not called), "wrote"
\* (called, its argument stored) or "threw" (called, nothing stored).
Queued(req) == [id |-> req.id, method |-> req.method, params |-> req.params, ran |-> "no"]

\* An inbound frame, after JSON.parse (json = FALSE: the text does not parse).
Frame(json, id, hasResult, hasError, result, error) ==
    [json |-> json, id |-> id, hasResult |-> hasResult, hasError |-> hasError,
     result |-> result, error |-> error]
ResultFrame(id, result) == Frame(TRUE, id, TRUE, FALSE, result, "")
ErrorFrame(id, error) == Frame(TRUE, id, FALSE, TRUE, NoResponse, error)
NoFrame == Frame(FALSE, 0, FALSE, FALSE, NoResponse, "")

\* The promise request() returns: pending, then fulfilled with the result or
\* rejected with the error of the reply.
Promise(id, method) ==
    [id |-> id, method |-> method, state |-> "pending", value |-> NoResponse, reason |-> ""]
NoPromises == [h \in {} |-> Promise(0, "")]

Drop(ps, h) == [x \in DOMAIN ps \ {h} |-> ps[x]]
Settled(h) == h \in DOMAIN promises /\ promises[h].state # "pending"

NoEvent == [type |-> "none", data |-> NoFrame, logged |-> FALSE, raised |-> FALSE]

INTERNALS == "@@bunReplInternals"
Absent == JSValue("absent", 0, "")
InternalsValue == JSValue("object", 0, "internals")

\* line 309, as a bug would have it: the counter is read but not advanced
NextReqIDNotAdvanced(r) == r

\* line 309: ++this.#reqID
NextReqID(r) == r + 1
\* line 311: the key under which the callbacks are stored, this.#reqID
CallbackKey(r) == r

\* request (lines 308-315), called with the promises left by the caller.
\* send() on a closed socket discards the frame; request() is never called
\* before the socket has opened.
request(method, params, live) ==
    LET id == NextReqID(reqID)
        h == nPromises + 1
        req == Request(id, method, params)
    IN /\ reqID < MaxReqID
       /\ reqID' = id
       /\ nPromises' = h
       /\ pendingReqs' = MapSet(pendingReqs, CallbackKey(id), h)
       /\ promises' = (h :> Promise(id, method)) @@ live
       /\ sent' = Append(sent, [id |-> id, method |-> method])
       /\ wire' = IF readyState = "closed" THEN wire ELSE wire \cup {Queued(req)}

NoRequest(live) ==
    /\ promises' = live
    /\ UNCHANGED <<reqID, nPromises, pendingReqs, sent, wire>>

-----------------------------------------------------------------------------
\* Inbound frames.

ObjGlobal == RemoteObject("object", "none", "g", "Window", NoPreview, <<>>, "")
ErrorInfo == "inspector error"

\* The frames with which the inspector can answer request r in this state.
\* It answers Runtime.callFunctionOn with a result after it has called the
\* function (lines 373-384), and with an error frame at any time.
Replies(r) ==
    {ErrorFrame(r.id, ErrorInfo)} \cup
    CASE r.method = "Runtime.enable" -> {ResultFrame(r.id, NoResponse)}
      [] r.method = "Runtime.evaluate" /\ r.params.expression = "globalThis" ->
            {ResultFrame(r.id, Response(ObjGlobal, FALSE))}
      [] r.method = "Runtime.evaluate" /\ r.params.expression # "globalThis" ->
            {ResultFrame(r.id, Response(o, t)) :
               o \in IF start.singleshotCode THEN EvaluateResults ELSE LineResults,
               t \in BOOLEAN}
      [] r.method = "Runtime.awaitPromise" ->
            {ResultFrame(r.id, Response(o, t)) :
               o \in IF start.singleshotCode THEN AwaitResults ELSE LineAwaitResults,
               t \in BOOLEAN}
      [] r.method = "Runtime.callFunctionOn" ->
            CASE r.ran = "no" -> {}
              [] r.ran = "threw" -> {ResultFrame(r.id, Response(ObjError, TRUE))}
              [] r.ran = "wrote" ->
                    {ResultFrame(r.id, Response(o, FALSE)) :
                       o \in IF start.singleshotCode THEN InspectResults
                             ELSE LineInspectResults}
                    \cup {ResultFrame(r.id, Response(ObjError, TRUE))}

WireIds == {r.id : r \in wire}

\* Frames that answer no outstanding request: text that is not JSON, a frame
\* with neither result nor error, a frame for an id that was never sent (0)
\* or has been answered already.
Malformed ==
    {NoFrame}
    \cup {Frame(TRUE, id, FALSE, FALSE, NoResponse, "") : id \in WireIds \cup {0}}
    \cup {ResultFrame(id, NoResponse) : id \in (0 .. reqID) \ WireIds}

InboundFrames == UNION {Replies(r) : r \in wire} \cup Malformed

IsReply(data) == data.json /\ (data.hasResult \/ data.hasError) /\ data.id \in WireIds

\* The inspector sent data: when data answers a request, the request is off
\* its queue.
Inspector(data) ==
    IF IsReply(data)
    THEN wire' = wire \ {CHOOSE q \in wire : q.id = data.id}
    ELSE UNCHANGED wire

Resolve(ps, h, value) ==
    IF h \in DOMAIN ps /\ ps[h].state = "pending"
    THEN [ps EXCEPT ![h].state = "fulfilled", ![h].value = value] ELSE ps
Reject(ps, h, reason) ==
    IF h \in DOMAIN ps /\ ps[h].state = "pending"
    THEN [ps EXCEPT ![h].state = "rejected", ![h].reason = reason] ELSE ps

\* line 141, as a bug would have it: any pending entry is taken
LookupAny(id) ==
    IF DOMAIN pendingReqs = {} THEN 0
    ELSE pendingReqs[CHOOSE k \in DOMAIN pendingReqs : \A j \in DOMAIN pendingReqs : k <= j]

\* line 141: MapGet(this.#pendingReqs, id)
Lookup(id) == MapGet(pendingReqs, id)

MessageEvent(data, logged) ==
    [type |-> "message", data |-> data, logged |-> logged, raised |-> FALSE]

\* lines 147-149, as a bug would have it: the throw is not caught
DroppedUncaught(data) ==
    /\ wsEvent' = [MessageEvent(data, FALSE) EXCEPT !.raised = TRUE]
    /\ UNCHANGED <<pendingReqs, promises>>

\* lines 147-149: the throw for an unknown request id (or, at line 139, of
\* JSON.parse) is caught and logged
Dropped(data) ==
    /\ wsEvent' = MessageEvent(data, TRUE)
    /\ UNCHANGED <<pendingReqs, promises>>

\* lines 137-151, as a bug would have it: line 143 is missing, the entry
\* stays in #pendingReqs after its promise has been settled
HandleMessageKeepsEntry(data) ==
    IF ~data.json THEN Dropped(data)
    ELSE LET promiseRef == Lookup(data.id)
         IN IF promiseRef # 0
            THEN /\ pendingReqs' = pendingReqs
                 /\ IF data.hasError
                    THEN /\ promises' = Reject(promises, promiseRef, data.error)
                         /\ wsEvent' = MessageEvent(data, FALSE)
                    ELSE IF data.hasResult
                    THEN /\ promises' = Resolve(promises, promiseRef, data.result)
                         /\ wsEvent' = MessageEvent(data, FALSE)
                    ELSE /\ promises' = promises
                         /\ wsEvent' = MessageEvent(data, TRUE)
            ELSE Dropped(data)

\* lines 137-151: the body of this.onmessage.  Every throw inside it is
\* caught at line 148 and logged at line 149.
HandleMessage(data) ==
    IF ~data.json THEN Dropped(data)
    ELSE LET promiseRef == Lookup(data.id)
         IN IF promiseRef # 0
            THEN /\ pendingReqs' = MapDelete(pendingReqs, data.id)
                 /\ IF data.hasError
                    THEN /\ promises' = Reject(promises, promiseRef, data.error)
                         /\ wsEvent' = MessageEvent(data, FALSE)
                    ELSE IF data.hasResult
                    THEN /\ promises' = Resolve(promises, promiseRef, data.result)
                         /\ wsEvent' = MessageEvent(data, FALSE)
                    ELSE /\ promises' = promises
                         /\ wsEvent' = MessageEvent(data, TRUE)
            ELSE Dropped(data)

\* process.exit has not been called
Alive == proc.pc # "exited"

\* Some continuation is ready to run: of an await on a settled promise, of
\* the await on an eval that has finished, of start()'s await on ready when
\* singleshotCode is given.  Without singleshotCode that continuation runs
\* into the await on loadHistoryData(), which reads a file: start() goes on
\* in a later task.
MicrotaskPending ==
    \/ \E h \in DOMAIN promises : promises[h].state # "pending"
    \/ \E e \in DOMAIN evals : evals[e].pc \in {"returned", "threw"}
    \/ proc.pc = "ready" /\ ready.pc = "resolved" /\ start.singleshotCode

onmessage ==
    /\ Alive
    /\ readyState = "open"
    /\ ~MicrotaskPending
    /\ \E data \in InboundFrames :
          /\ Inspector(data)
          /\ HandleMessage(data)
    /\ UNCHANGED <<reqID, nPromises, sent, readyState, ready, globalObjectID, GLOBAL,
                   evals, driver, si, transform,
                   awaitingVersion>>

\* lines 375-376, as a bug would have it: the function stores its argument
\* in _ whatever wasThrown is
FunctionBindingSuccessOnly(params) == "_"

\* lines 375-376: if (!wasThrown) this._ = v; else this._error = v;
FunctionBinding(params) == IF params.fnWasThrown THEN "_error" ELSE "_"

\* lines 373-384: the inspector calls the function of a queued
\* Runtime.callFunctionOn, on the global object of this process and as a
\* task of its own, before it sends the reply.  The function reads
\* this['@@bunReplInternals'] first: without the property it throws there;
\* with it, it stores its argument in _ or _error and goes on to render it.
functionDeclaration ==
    /\ Alive
    /\ ~MicrotaskPending
    /\ \E r \in wire :
          /\ r.method = "Runtime.callFunctionOn"
          /\ r.ran = "no"
          /\ IF GLOBAL[INTERNALS] = Absent
             THEN /\ wire' = (wire \ {r}) \cup {[r EXCEPT !.ran = "threw"]}
                  /\ UNCHANGED GLOBAL
             ELSE /\ wire' = (wire \ {r}) \cup {[r EXCEPT !.ran = "wrote"]}
                  /\ GLOBAL' = [GLOBAL EXCEPT ![FunctionBinding(r.params)] =
                                                 ValueOf(r.params.argument)]
    /\ wsEvent' = NoEvent
    /\ UNCHANGED <<reqID, pendingReqs, promises, nPromises, sent, readyState, ready,
                   globalObjectID, evals, driver, si, transform,
                   awaitingVersion>>

\* line 152: this.onclose only prints
onclose ==
    /\ Alive
    /\ readyState # "closed"
    /\ ~MicrotaskPending
    /\ readyState' = "closed"
    /\ wsEvent' = [type |-> "close", data |-> NoFrame, logged |-> TRUE, raised |-> FALSE]
    /\ UNCHANGED <<reqID, pendingReqs, promises, nPromises, wire, sent, ready,
                   globalObjectID, GLOBAL, evals, driver, si, transform,
                   awaitingVersion>>

\* line 153: this.onerror only prints
onerror ==
    /\ Alive
    /\ readyState # "closed"
    /\ ~MicrotaskPending
    /\ wsEvent.type # "error"
    /\ wsEvent' = [type |-> "error", data |-> NoFrame, logged |-> TRUE, raised |-> FALSE]
    /\ UNCHANGED <<reqID, pendingReqs, promises, nPromises, wire, sent, readyState,
                   ready, globalObjectID, GLOBAL, evals, driver, si, transform,
                   awaitingVersion>>

-----------------------------------------------------------------------------
\* REPLServer.ready (lines 163-295)

\* line 165, as a bug would have it: the chain starts with rawEval('globalThis')
onopenWithoutEnable ==
    /\ Alive
    /\ readyState = "connecting"
    /\ readyState' = "open"
    /\ ready' = [pc |-> "globalThis", call |-> nPromises + 1]
    /\ request("Runtime.evaluate", Params("globalThis", "", FALSE, FALSE, NoObject), promises)
    /\ wsEvent' = NoEvent
    /\ UNCHANGED <<globalObjectID, GLOBAL, evals, driver, si, transform,
                   awaitingVersion>>

\* line 165: this.onopen sends Runtime.enable
onopen ==
    /\ Alive
    /\ readyState = "connecting"
    /\ readyState' = "open"
    /\ ready' = [pc |-> "enable", call |-> nPromises + 1]
    /\ request("Runtime.enable", NoParams, promises)
    /\ wsEvent' = NoEvent
    /\ UNCHANGED <<globalObjectID, GLOBAL, evals, driver, si, transform,
                   awaitingVersion>>

\* line 166: .then(() => this.rawEval('globalThis'))
readyThenRawEval ==
    /\ Alive
    /\ ready.pc = "enable"
    /\ Settled(ready.call)
    /\ wsEvent' = NoEvent
    /\ IF promises[ready.call].state = "fulfilled"
       THEN /\ ready' = [pc |-> "globalThis", call |-> nPromises + 1]
            /\ request("Runtime.evaluate", Params("globalThis", "", FALSE, FALSE, NoObject),
                       Drop(promises, ready.call))
       ELSE /\ ready' = [pc |-> "rejected", call |-> 0]
            /\ NoRequest(Drop(promises, ready.call))
    /\ UNCHANGED <<readyState, globalObjectID, GLOBAL, evals, driver, si, transform,
                   awaitingVersion>>

\* lines 167-294: .then(({ result }) => { ...; resolve(); })
readyThenResolve ==
    /\ Alive
    /\ ready.pc = "globalThis"
    /\ Settled(ready.call)
    /\ wsEvent' = NoEvent
    /\ IF promises[ready.call].state = "fulfilled"
       THEN /\ ready' = [pc |-> "resolved", call |-> 0]
            /\ globalObjectID' = promises[ready.call].value.result.objectId
            /\ GLOBAL' = [GLOBAL EXCEPT !["_"] = Undefined, !["_error"] = Undefined]
       ELSE /\ ready' = [pc |-> "rejected", call |-> 0]
            /\ UNCHANGED <<globalObjectID, GLOBAL>>
    /\ NoRequest(Drop(promises, ready.call))
    /\ UNCHANGED <<readyState, evals, driver, si, transform,
                   awaitingVersion>>

-----------------------------------------------------------------------------
\* REPLServer.eval (lines 324-396)

NoFlags == [errored |-> FALSE, noPrintError |-> FALSE]
Text(uncaught, str) == [uncaught |-> uncaught, str |-> str]
NoText == Text(FALSE, EmptyString)

\* One activation of eval: where it is, its parameters (topLevelAwaited,
\* extraOut), its locals (thrown, result, remoteObj), the promise it awaits
\* and, once it has finished, the text it returned or the error it threw.
IdleEval ==
    [pc |-> "idle", topLevelAwaited |-> FALSE, call |-> 0, thrown |-> FALSE,
     result |-> NoObject, remoteObj |-> NoObject, extraOut |-> NoFlags,
     text |-> NoText, error |-> ""]

Idle == {e \in DOMAIN evals : evals[e].pc = "idle"}

\* line 346: result.preview.properties?.find(p => p.name === 'status')?.value
StatusOf(preview) ==
    LET idx == {i \in DOMAIN preview.properties : preview.properties[i].name = "status"}
    IN IF idx = {} THEN "undefined"
       ELSE preview.properties[CHOOSE i \in idx : \A j \in idx : i <= j].value

\* lines 330-351, as a bug would have it: objectId is required of null too
ObjectTypeHandlerNullLate(result, topLevelAwaited) ==
    IF result.type # "object" THEN "render"
    ELSE IF result.objectId = "" THEN "noObjectId"
    ELSE IF result.subtype = "null" THEN "render"
    ELSE IF result.className = "Promise"
    THEN IF ~result.preview.present THEN "noPreview"
         ELSE "await"
    ELSE "render"

\* lines 330-351: what the block ObjectTypeHandler does with the result of
\* Runtime.evaluate
ObjectTypeHandler(result, topLevelAwaited) ==
    IF result.type # "object" THEN "render"
    ELSE IF result.subtype = "null" THEN "render"
    ELSE IF result.objectId = "" THEN "noObjectId"
    ELSE IF result.className = "Promise"
    THEN IF ~result.preview.present THEN "noPreview"
         ELSE IF topLevelAwaited THEN "await" ELSE "detect"
    ELSE "render"

\* lines 346-348
DetectRejection(result, remoteObj) ==
    IF StatusOf(result.preview) = "rejected"
    THEN [remoteObj EXCEPT !.wasRejectedPromise = TRUE] ELSE remoteObj

\* eval throws err (or the promise it awaits was rejected)
evalThrow(e, ev, err, live) ==
    /\ evals' = [evals EXCEPT ![e] = [ev EXCEPT !.pc = "threw", !.call = 0, !.error = err]]
    /\ NoRequest(live)
    /\ UNCHANGED GLOBAL

\* lines 390-393
Finalize(extraOut, remoteObj) ==
    [errored |-> IF remoteObj.wasThrown THEN TRUE ELSE extraOut.errored,
     noPrintError |-> IF remoteObj.wasRejectedPromise THEN TRUE ELSE extraOut.noPrintError]

\* lines 337-338, as a bug would have it: the working value stays the Promise
AwaitedKeepsDeferred(result, awaited) == [result EXCEPT !.wasThrown = awaited.wasThrown]

\* lines 337-338: the working value becomes the result of Runtime.awaitPromise
Awaited(result, awaited) == [awaited.result EXCEPT !.wasThrown = awaited.wasThrown]

\* lines 388-389, as a bug would have it: only a thrown render is refused
InspectFailedOnlyThrown(inspected) == inspected.wasThrown

\* lines 388-389: the reply to Runtime.callFunctionOn is not a rendered string
InspectFailed(inspected) == inspected.wasThrown \/ inspected.result.type # "string"

\* line 394, as a bug would have it: every thrown value is marked
UncaughtAnyThrown(remoteObj) == remoteObj.wasThrown

\* line 394: wasThrown && remoteObj.subtype !== 'error'
Uncaught(remoteObj) == remoteObj.wasThrown /\ remoteObj.subtype # "error"

\* line 357, as a bug would have it: always the success binding
BigIntBindingAlways(remoteObj) == "_"

\* line 357: remoteObj.wasThrown ? '_error' : '_'
BigIntBinding(remoteObj) == IF remoteObj.wasThrown THEN "_error" ELSE "_"

\* lines 353-386: the bigint workaround, or the request that renders the value
evalRender(e, ev, remoteObj, live) ==
    IF remoteObj.type = "bigint"
    THEN IF remoteObj.description = <<>>
         THEN evalThrow(e, [ev EXCEPT !.remoteObj = remoteObj], "EvalError", live)
         ELSE LET value == BigInt(SliceDropLast(remoteObj.description))
              IN IF ~value.ok
                 THEN evalThrow(e, [ev EXCEPT !.remoteObj = remoteObj], "SyntaxError", live)
                 ELSE \E env \in InspectEnvs :
                        /\ GLOBAL' = [GLOBAL EXCEPT ![BigIntBinding(remoteObj)] =
                                                        BigIntValue(value.n)]
                        /\ evals' = [evals EXCEPT ![e] =
                              [ev EXCEPT !.pc = "returned", !.call = 0,
                                         !.remoteObj = remoteObj,
                                         !.text = Text(remoteObj.wasThrown,
                                                       SafeInspect(BigIntValue(value.n),
                                                                   DefaultInspectOptions,
                                                                   env).value)]]
                        /\ NoRequest(live)
    ELSE /\ reqID < MaxReqID
         /\ GLOBAL' = [GLOBAL EXCEPT ![INTERNALS] = InternalsValue]
         /\ evals' = [evals EXCEPT ![e] =
               [ev EXCEPT !.pc = "callFunctionOn", !.call = nPromises + 1,
                          !.remoteObj = remoteObj]]
         /\ request("Runtime.callFunctionOn",
                    Params("", globalObjectID, remoteObj.wasThrown,
                           remoteObj.subtype = "error", remoteObj),
                    live)

\* lines 324-326: eval(code, topLevelAwaited, extraOut) up to its first
\* await, in activation e; both callers pass fresh flags (lines 490, 590)
evalCall(e, topLevelAwaited) ==
    /\ evals' = [evals EXCEPT ![e] =
          [IdleEval EXCEPT !.pc = "rawEval", !.topLevelAwaited = topLevelAwaited,
                           !.call = nPromises + 1]]
    /\ request("Runtime.evaluate", Params("code", "", FALSE, FALSE, NoObject), promises)

\* lines 326-386: from the reply to Runtime.evaluate to the next await
evalAfterRawEval(e) ==
    /\ Alive
    /\ evals[e].pc = "rawEval"
    /\ Settled(evals[e].call)
    /\ wsEvent' = NoEvent
    /\ LET p == promises[evals[e].call]
           live == Drop(promises, evals[e].call)
           thrown == p.value.wasThrown
           result == [p.value.result EXCEPT !.wasThrown = thrown]
           ev == [evals[e] EXCEPT !.thrown = thrown, !.result = result, !.remoteObj = result]
           todo == ObjectTypeHandler(result, evals[e].topLevelAwaited)
       IN IF p.state = "rejected" THEN evalThrow(e, evals[e], "Error", live)
          ELSE IF todo \in {"noObjectId", "noPreview"} THEN evalThrow(e, ev, "EvalError", live)
          ELSE IF todo = "await"
          THEN /\ reqID < MaxReqID
               /\ evals' = [evals EXCEPT ![e] =
                     [ev EXCEPT !.pc = "awaitPromise", !.call = nPromises + 1]]
               /\ request("Runtime.awaitPromise",
                          Params("", result.objectId, FALSE, FALSE, NoObject), live)
               /\ UNCHANGED GLOBAL
          ELSE IF todo = "detect"
          THEN LET marked == DetectRejection(result, result)
               IN evalRender(e, [ev EXCEPT !.result = marked], marked, live)
          ELSE evalRender(e, ev, result, live)
    /\ UNCHANGED <<readyState, ready, globalObjectID, driver, si, transform,
                   awaitingVersion>>

\* lines 336-386: from the reply to Runtime.awaitPromise to the next await
evalAfterAwait(e) ==
    /\ Alive
    /\ evals[e].pc = "awaitPromise"
    /\ Settled(evals[e].call)
    /\ wsEvent' = NoEvent
    /\ LET p == promises[evals[e].call]
           live == Drop(promises, evals[e].call)
           awaited == p.value
           remoteObj == Awaited(evals[e].result, awaited)
       IN IF p.state = "rejected" THEN evalThrow(e, evals[e], "Error", live)
          ELSE evalRender(e, evals[e], DetectRejection(evals[e].result, remoteObj), live)
    /\ UNCHANGED <<readyState, ready, globalObjectID, driver, si, transform,
                   awaitingVersion>>

\* lines 371-395: from the reply to Runtime.callFunctionOn to the return
evalAfterInspect(e) ==
    /\ Alive
    /\ evals[e].pc = "callFunctionOn"
    /\ Settled(evals[e].call)
    /\ wsEvent' = NoEvent
    /\ LET p == promises[evals[e].call]
           live == Drop(promises, evals[e].call)
           inspected == p.value
           ev == evals[e]
       IN IF p.state = "rejected" THEN evalThrow(e, ev, "Error", live)
          ELSE /\ GLOBAL' = [GLOBAL EXCEPT ![INTERNALS] = Absent]
               /\ NoRequest(live)
               /\ IF InspectFailed(inspected)
                  THEN evals' = [evals EXCEPT ![e] =
                          [ev EXCEPT !.pc = "threw", !.call = 0, !.error = "EvalError"]]
                  ELSE evals' = [evals EXCEPT ![e] =
                          [ev EXCEPT !.pc = "returned", !.call = 0,
                                     !.extraOut = Finalize(ev.extraOut, ev.remoteObj),
                                     !.text = Text(Uncaught(ev.remoteObj),
                                                   Str("remote", JSValue("string", 0,
                                                       inspected.result.value)))]]
    /\ UNCHANGED <<readyState, ready, globalObjectID, driver, si, transform,
                   awaitingVersion>>

-----------------------------------------------------------------------------
\* start (lines 456-606)

\* What a step of start() wrote: to which streams, which text, when the
\* text came from eval, the flags eval returned with it and, for the line
\* loop, whether the step went on to rl.prompt().
Output(stdout, stderr, text) ==
    [stdout |-> stdout, stderr |-> stderr, text |-> text, extraInfo |-> NoFlags,
     prompt |-> FALSE]
NoOutput == Output(FALSE, FALSE, NoText)

\* rl.prompt() (lines 540, 582, 597, 600) after out has been written
Prompted(out) == [out EXCEPT !.prompt = TRUE]
TranspilerError == Text(FALSE, Str("transpiler error", Undefined))
InternalError == Text(FALSE, Str("Internal REPL Error", Undefined))
Welcome == Text(FALSE, Str("welcome", Undefined))

Exited(code) == [pc |-> "exited", exitCode |-> code]

\* lines 492-495, as a bug would have it: printSingleshot is not tested
SingleshotPrintUnasked(extraInfo, printSingleshot, evaled) ==
    IF ~extraInfo.noPrintError
    THEN IF extraInfo.errored THEN Output(FALSE, TRUE, evaled)
         ELSE Output(TRUE, FALSE, evaled)
    ELSE IF ~extraInfo.errored THEN Output(TRUE, FALSE, evaled)
         ELSE NoOutput

\* lines 492-495: where single-shot mode prints the text
SingleshotPrint(extraInfo, printSingleshot, evaled) ==
    IF ~extraInfo.noPrintError
    THEN IF extraInfo.errored THEN Output(FALSE, TRUE, evaled)
         ELSE IF printSingleshot THEN Output(TRUE, FALSE, evaled)
         ELSE NoOutput
    ELSE IF ~extraInfo.errored /\ printSingleshot THEN Output(TRUE, FALSE, evaled)
         ELSE NoOutput

\* lines 592-595, as a bug would have it: noPrintError is not tested
LinePrintNotSuppressed(extraInfo, evaled) ==
    IF extraInfo.errored THEN Output(FALSE, TRUE, evaled)
    ELSE Output(TRUE, FALSE, evaled)

\* lines 592-595: where the line handler prints the text
LinePrint(extraInfo, evaled) ==
    IF ~extraInfo.noPrintError
    THEN IF extraInfo.errored THEN Output(FALSE, TRUE, evaled)
         ELSE Output(TRUE, FALSE, evaled)
    ELSE IF ~extraInfo.errored THEN Output(TRUE, FALSE, evaled)
         ELSE NoOutput

\* lines 165-167: the chain is discarded with `void`, so its rejection has no
\* handler: the runtime reports it and, as the runtime is set up, ends the
\* process with code 1 or lets it run on (ready then stays pending for ever).
readyUnhandledRejection ==
    /\ Alive
    /\ ready.pc = "rejected"
    /\ proc' = Exited(1)
    /\ wsEvent' = NoEvent
    /\ UNCHANGED <<reqID, pendingReqs, promises, nPromises, wire, sent, readyState,
                   ready, globalObjectID, GLOBAL, evals, start, console, si, transform,
                   awaitingVersion>>

\* lines 460, 474-491: single-shot mode, from the await on ready to the await
\* on eval; the transpiler may throw, hasTLA is whether the code has 'await'
startSingleshot ==
    /\ Alive
    /\ start.singleshotCode
    /\ proc.pc = "ready"
    /\ ready.pc = "resolved"
    /\ wsEvent' = NoEvent
    /\ \E transpiles \in BOOLEAN, hasTLA \in BOOLEAN :
         IF transpiles
         THEN /\ proc' = [proc EXCEPT !.pc = "eval"]
              /\ evalCall(1, hasTLA)
              /\ UNCHANGED console
         ELSE /\ proc' = Exited(1)
              /\ console' = Output(FALSE, TRUE, TranspilerError)
              /\ UNCHANGED <<evals, reqID, pendingReqs, promises, nPromises, wire, sent>>
    /\ UNCHANGED <<readyState, ready, globalObjectID, GLOBAL, start, si, transform,
                   awaitingVersion>>

\* lines 492-496 and 601-605: single-shot mode after eval
singleshotAfterEval ==
    /\ Alive
    /\ proc.pc = "eval"
    /\ evals[1].pc \in {"returned", "threw"}
    /\ wsEvent' = NoEvent
    /\ IF evals[1].pc = "returned"
       THEN /\ console' = [SingleshotPrint(evals[1].extraOut, start.printSingleshot,
                                           evals[1].text)
                             EXCEPT !.extraInfo = evals[1].extraOut]
            /\ proc' = Exited(0)
       ELSE /\ console' = Output(FALSE, TRUE, InternalError)
            /\ proc' = Exited(1)
    /\ UNCHANGED <<reqID, pendingReqs, promises, nPromises, wire, sent, readyState,
                   ready, globalObjectID, GLOBAL, evals, start, si, transform,
                   awaitingVersion>>

\* lines 460, 498-600: interactive mode, from the await on ready to the
\* first prompt.  The continuation of the await on ready changes nothing and
\* stops at the await on loadHistoryData() (line 498); the step is the later
\* task in which the history has been read, so websocket events can come
\* between the end of ready and the welcome.
startInteractive ==
    /\ Alive
    /\ ~start.singleshotCode
    /\ proc.pc = "ready"
    /\ ready.pc = "resolved"
    /\ ~MicrotaskPending
    /\ proc' = [proc EXCEPT !.pc = "loop"]
    /\ console' = Prompted(Output(TRUE, TRUE, Welcome))
    /\ wsEvent' = NoEvent
    /\ UNCHANGED <<reqID, pendingReqs, promises, nPromises, wire, sent, readyState,
                   ready, globalObjectID, GLOBAL, evals, start, si, transform,
                   awaitingVersion>>

\* lines 538-591: the line handler for a line of code that transpiles, up to
\* the await on eval
lineEval ==
    /\ Alive
    /\ proc.pc = "loop"
    /\ ~MicrotaskPending
    /\ Idle # {}
    /\ \E hasTLA \in BOOLEAN :
         evalCall(CHOOSE i \in Idle : \A j \in Idle : i <= j, hasTLA)
    /\ wsEvent' = NoEvent
    /\ UNCHANGED <<readyState, ready, globalObjectID, GLOBAL, driver, si, transform,
                   awaitingVersion>>

\* The lines that do not reach eval: the empty line, the commands (".x"
\* stands for every line with a dot that is no command) and code the
\* transpiler refuses.
DotCommands == {".help", ".info", ".clear", ".exit", ".x"}
Refused == "refused code"
OtherLines == {""} \cup DotCommands \cup {Refused}
CommandOutput(line) == Text(FALSE, Str(line, Undefined))

\* lines 538-584 and 597: the line handler for a line that does not reach
\* eval.  For .info the handler stops at the await on tryGetPackageVersion()
\* (line 555) with nothing written; lineInfoAfterVersion is the rest of it.
\* .exit closes the interface, whose 'close' handler (lines 529-534) writes
\* a newline and ends the process with code 0.
lineOther ==
    /\ Alive
    /\ proc.pc = "loop"
    /\ ~MicrotaskPending
    /\ \E line \in OtherLines :
         /\ line = ".info" => awaitingVersion < MaxInfo
         /\ console' = IF line = "" THEN Prompted(NoOutput)
                       ELSE IF line = ".exit" THEN Output(TRUE, FALSE, NoText)
                       ELSE IF line = ".info" THEN console
                       ELSE IF line = Refused
                       THEN Prompted(Output(FALSE, TRUE, TranspilerError))
                       ELSE Prompted(Output(TRUE, FALSE, CommandOutput(line)))
         /\ proc' = IF line = ".exit" THEN Exited(0) ELSE proc
         /\ awaitingVersion' = IF line = ".info" THEN awaitingVersion + 1
                               ELSE awaitingVersion
    /\ wsEvent' = NoEvent
    /\ UNCHANGED <<reqID, pendingReqs, promises, nPromises, wire, sent, readyState,
                   ready, globalObjectID, GLOBAL, evals, start, si, transform>>

\* lines 553-559 and 597: a line handler of ".info" goes on once
\* tryGetPackageVersion() has resolved: it writes the text, then the prompt
lineInfoAfterVersion ==
    /\ Alive
    /\ proc.pc = "loop"
    /\ ~MicrotaskPending
    /\ awaitingVersion > 0
    /\ awaitingVersion' = awaitingVersion - 1
    /\ console' = Prompted(Output(TRUE, FALSE, CommandOutput(".info")))
    /\ wsEvent' = NoEvent
    /\ UNCHANGED <<reqID, pendingReqs, promises, nPromises, wire, sent, readyState,
                   ready, globalObjectID, GLOBAL, evals, start, proc, si, transform>>

\* What the runtime writes for a rejected promise that has no handler.
UnhandledRejection == Text(FALSE, Str("unhandled rejection", Undefined))

\* lines 592-597: the line handler after eval.  When eval threw, the handler
\* ends at line 591 and the promise it returned is rejected; nothing awaits
\* that promise (start() returned after line 600, so its catch at line 601
\* is out of reach): the runtime reports the unhandled rejection and, as the
\* runtime is set up, ends the process with code 1 or lets it run on.
lineAfterEval(e) ==
    /\ Alive
    /\ proc.pc = "loop"
    /\ evals[e].pc \in {"returned", "threw"}
    /\ IF evals[e].pc = "returned"
       THEN /\ console' = Prompted([LinePrint(evals[e].extraOut, evals[e].text)
                                      EXCEPT !.extraInfo = evals[e].extraOut])
            /\ proc' = proc
       ELSE /\ console' = Output(FALSE, TRUE, UnhandledRejection)
            /\ \E fatal \in BOOLEAN : proc' = IF fatal THEN Exited(1) ELSE proc
    /\ evals' = [evals EXCEPT ![e] = IdleEval]
    /\ wsEvent' = NoEvent
    /\ UNCHANGED <<reqID, pendingReqs, promises, nPromises, wire, sent, readyState,
                   ready, globalObjectID, GLOBAL, start, si, transform,
                   awaitingVersion>>

-----------------------------------------------------------------------------
\* tryProcessTopLevelAwait (lines 428-445).  A text is a sequence of atoms:
\* the three words of the pattern, other identifier text, white space and
\* other characters.  Identifier atoms next to each other read as one
\* identifier, as their characters do.

Keywords == {"var", "let", "const"}
IdAtoms == Keywords \cup {"x", "await", "return", "undefined"}
WsAtoms == {" ", "\n"}
Opener == "(async()=>{"
Closer == ";})();"

\* The number of atoms of s from position i on that are in set.
RECURSIVE RunLength(_, _, _)
RunLength(s, i, set) ==
    IF i > Len(s) \/ s[i] \notin set THEN 0
    ELSE 1 + RunLength(s, i + 1, set)

\* line 429: JSVarDeclRegex tried at position i of s.  Nothing is required
\* of the text before the keyword; \s+ and the identifier are greedy.
MatchAt(s, i) ==
    LET ws == RunLength(s, i + 1, WsAtoms)
        id == RunLength(s, i + 1 + ws, IdAtoms)
    IN IF i <= Len(s) /\ s[i] \in Keywords /\ ws > 0 /\ id > 0
       THEN [ok |-> TRUE, keyword |-> s[i],
             varname |-> SubSeq(s, i + 1 + ws, i + ws + id), len |-> 1 + ws + id]
       ELSE [ok |-> FALSE, keyword |-> "", varname |-> <<>>, len |-> 0]

\* line 441, as a bug would have it: the keyword is left out
DeclarationWithoutKeyword(keyword, varname) == varname \o <<";">>

\* line 441, as a bug would have it: const is hoisted as const
DeclarationKeepsConst(keyword, varname) == <<keyword, " ">> \o varname \o <<";">>

\* line 441: `${keyword === 'const' ? 'let' : keyword} ${varname};`
Declaration(keyword, varname) ==
    <<IF keyword = "const" THEN "let" ELSE keyword, " ">> \o varname \o <<";">>

\* lines 439-443: StringPrototypeReplaceAll with the callback, from position
\* i on: the text appended to hoisted, the replaced text and, for each atom
\* of the replaced text, whether the callback returned it.
RECURSIVE ReplaceAll(_, _)
ReplaceAll(s, i) ==
    IF i > Len(s)
    THEN [hoisted |-> <<>>, transformed |-> <<>>, replaced |-> <<>>]
    ELSE LET m == MatchAt(s, i)
         IN IF m.ok
            THEN LET rest == ReplaceAll(s, i + m.len)
                 IN [hoisted |-> Declaration(m.keyword, m.varname) \o rest.hoisted,
                     transformed |-> m.varname \o rest.transformed,
                     replaced |-> [j \in 1 .. Len(m.varname) |-> TRUE] \o rest.replaced]
            ELSE LET rest == ReplaceAll(s, i + 1)
                 IN [hoisted |-> rest.hoisted,
                     transformed |-> <<s[i]>> \o rest.transformed,
                     replaced |-> <<FALSE>> \o rest.replaced]

\* lines 438-444: the hoisting step, on the wrapped text
Hoist(text) ==
    LET r == ReplaceAll(text, 1)
    IN [text |-> text, hoisted |-> r.hoisted, transformed |-> r.transformed,
        replaced |-> r.replaced, out |-> r.hoisted \o r.transformed]

\* line 434: StringPrototypeSplit(src, '\n')
RECURSIVE Split(_)
Split(s) ==
    LET nl == {i \in DOMAIN s : s[i] = "\n"}
    IN IF nl = {} THEN <<s>>
       ELSE LET k == CHOOSE i \in nl : \A j \in nl : i <= j
            IN <<SubSeq(s, 1, k - 1)>> \o Split(SubSeq(s, k + 1, Len(s)))

\* ArrayPrototypeJoin(lines, '\n')
RECURSIVE Join(_)
Join(lines) ==
    IF lines = <<>> THEN <<>>
    ELSE IF Len(lines) = 1 THEN lines[1]
    ELSE lines[1] \o <<"\n">> \o Join(Tail(lines))

\* !StringTrim(line)
Blank(line) == \A i \in DOMAIN line : line[i] \in WsAtoms

\* lines 434-437 and the join of line 439.  When the only line is blank the
\* array is empty after line 435 and line 437 makes its first element of
\* undefined.
Wrap(src) ==
    LET split == Split(src)
        lines == IF Blank(split[Len(split)]) THEN SubSeq(split, 1, Len(split) - 1)
                 ELSE split
    IN IF lines = <<>> THEN <<Opener, "undefined">>
       ELSE LET last == [lines EXCEPT ![Len(lines)] = <<"return", " ">> \o @ \o <<Closer>>]
            IN Join([last EXCEPT ![1] = <<Opener>> \o @])

tryProcessTopLevelAwait(src) == Hoist(Wrap(src))

\* The sources of this model: at most MaxSrcLen atoms, with 'await' in them
\* (lines 486 and 586 call the function for no other code).
SrcAtoms == {"var", "let", "const", "x", "await", " ", "\n", "="}
Sources ==
    {s \in UNION {[1 .. n -> SrcAtoms] : n \in 1 .. MaxSrcLen} :
        \E i \in DOMAIN s : s[i] = "await"}

NoHoist == Hoist(<<>>)
NoTransform == [pc |-> "idle", src |-> <<>>, first |-> NoHoist, second |-> NoHoist]

\* lines 488 and 588: code = tryProcessTopLevelAwait(code)
callTryProcessTopLevelAwait ==
    /\ transform.pc = "src"
    /\ transform' = [transform EXCEPT !.pc = "hoisted",
                                      !.first = tryProcessTopLevelAwait(transform.src)]
    /\ UNCHANGED <<reqID, pendingReqs, promises, nPromises, wire, sent, readyState,
                   ready, globalObjectID, GLOBAL, evals, wsEvent, driver, si,
                   awaitingVersion>>

\* lines 438-444 once more, on the text the function returned
rerunHoist ==
    /\ transform.pc = "hoisted"
    /\ transform' = [transform EXCEPT !.pc = "rehoisted",
                                      !.second = Hoist(transform.first.out)]
    /\ UNCHANGED <<reqID, pendingReqs, promises, nPromises, wire, sent, readyState,
                   ready, globalObjectID, GLOBAL, evals, wsEvent, driver, si,
                   awaitingVersion>>

-----------------------------------------------------------------------------
\* The state after `new REPLServer()` (line 459), for given arguments of start.
Constructed(singleshotCode, printSingleshot) ==
    /\ reqID = 0
    /\ pendingReqs = EmptyMap
    /\ promises = NoPromises
    /\ nPromises = 0
    /\ wire = {}
    /\ sent = <<>>
    /\ readyState = "connecting"
    /\ ready = [pc |-> "connecting", call |-> 0]
    /\ globalObjectID = ""
    /\ GLOBAL = [k \in {"_", "_error", INTERNALS} |-> Absent]
    /\ evals = [e \in 1 .. MaxEvals |-> IdleEval]
    /\ wsEvent = NoEvent
    /\ start = [singleshotCode |-> singleshotCode, printSingleshot |-> printSingleshot]
    /\ proc = [pc |-> "ready", exitCode |-> 0]
    /\ console = NoOutput
    /\ awaitingVersion = 0

\* Interactive mode: start() without singleshotCode.
Init ==
    /\ Constructed(FALSE, FALSE)
    /\ si = SafeInspectIdle
    /\ transform = NoTransform

Next ==
    \/ onopen
    \/ onmessage
    \/ functionDeclaration
    \/ onclose
    \/ onerror
    \/ readyThenRawEval
    \/ readyThenResolve
    \/ readyUnhandledRejection
    \/ startInteractive
    \/ lineEval
    \/ lineOther
    \/ lineInfoAfterVersion
    \/ \E e \in 1 .. MaxEvals : evalAfterRawEval(e)
    \/ \E e \in 1 .. MaxEvals : evalAfterAwait(e)
    \/ \E e \in 1 .. MaxEvals : evalAfterInspect(e)
    \/ \E e \in 1 .. MaxEvals : lineAfterEval(e)

Spec == Init /\ [][Next]_vars

\* Single-shot mode: start(singleshotCode, printSingleshot).
InitSingleshot ==
    /\ \E printSingleshot \in BOOLEAN : Constructed(TRUE, printSingleshot)
    /\ si = SafeInspectIdle
    /\ transform = NoTransform

NextSingleshot ==
    \/ onopen
    \/ onmessage
    \/ functionDeclaration
    \/ onclose
    \/ onerror
    \/ readyThenRawEval
    \/ readyThenResolve
    \/ readyUnhandledRejection
    \/ startSingleshot
    \/ evalAfterRawEval(1)
    \/ evalAfterAwait(1)
    \/ evalAfterInspect(1)
    \/ singleshotAfterEval

SpecSingleshot == InitSingleshot /\ [][NextSingleshot]_vars

-----------------------------------------------------------------------------
\* SafeInspect on its own: every value, option object and failure pattern.

InitInspect ==
    /\ Constructed(FALSE, FALSE)
    /\ si \in {[called |-> FALSE, val |-> v, opts |-> o, env |-> n, out |-> NoCompletion] :
                 v \in InspectValues, o \in InspectOptionsSet, n \in InspectEnvs}
    /\ transform = NoTransform

CallSafeInspect ==
    /\ ~si.called
    /\ si' = [si EXCEPT !.called = TRUE, !.out = SafeInspect(si.val, si.opts, si.env)]
    /\ UNCHANGED <<reqID, pendingReqs, promises, nPromises, wire, sent, readyState,
                   ready, globalObjectID, GLOBAL, evals, wsEvent, driver, transform,
                   awaitingVersion>>

NextInspect == CallSafeInspect

SpecInspect == InitInspect /\ [][NextInspect]_vars

\* tryProcessTopLevelAwait on its own: every source text of the bound.
InitTransform ==
    /\ Constructed(FALSE, FALSE)
    /\ si = SafeInspectIdle
    /\ transform \in {[NoTransform EXCEPT !.pc = "src", !.src = s] : s \in Sources}

NextTransform ==
    \/ callTryProcessTopLevelAwait
    \/ rerunHoist

SpecTransform == InitTransform /\ [][NextTransform]_vars

-----------------------------------------------------------------------------
\* Properties of the correlation layer.

IsMessage(ev) == ev.type = "message" /\ ev.data.json
CarriesReply(ev) == IsMessage(ev) /\ (ev.data.hasResult \/ ev.data.hasError)
Pending == {h \in DOMAIN promises : promises[h].state = "pending"}

\* C1: a reply frame with id n, handled while a call is registered under n,
\* settles the one promise whose request frame carried n, with the frame's
\* error (reject) or else its result (resolve), and changes no other promise,
\* whatever else is in flight and in whatever order the replies come.
ReplyCompletesItsCall ==
    [][(CarriesReply(wsEvent') /\ wsEvent'.data.id \in DOMAIN pendingReqs) =>
         LET data == wsEvent'.data
             mine == {h \in Pending : promises[h].id = data.id}
         IN /\ Cardinality(mine) = 1
            /\ \A h \in mine :
                 /\ promises'[h].state = IF data.hasError THEN "rejected" ELSE "fulfilled"
                 /\ data.hasError => promises'[h].reason = data.error
                 /\ ~data.hasError => promises'[h].value = data.result
            /\ DOMAIN promises' = DOMAIN promises
            /\ \A h \in DOMAIN promises \ mine : promises'[h] = promises[h]
            /\ data.id \notin DOMAIN pendingReqs'
            /\ \A k \in DOMAIN pendingReqs \ {data.id} :
                 k \in DOMAIN pendingReqs' /\ pendingReqs'[k] = pendingReqs[k]]_vars

\* C1 witness: two calls are in flight and the reply to the later one has
\* been handled first.
OutOfOrderReplyHandled ==
    \E h1, h2 \in DOMAIN promises :
       /\ h1 < h2
       /\ promises[h1].state = "pending"
       /\ promises[h1].id \in DOMAIN pendingReqs
       /\ promises[h2].state = "fulfilled"
       /\ CarriesReply(wsEvent)
       /\ wsEvent.data.id = promises[h2].id

\* C2: a frame whose id matches no entry of #pendingReqs does not raise out
\* of the handler, leaves #pendingReqs as it is, settles no promise and
\* changes no evaluation.
UnknownIdIsHarmless ==
    [][(IsMessage(wsEvent') /\ wsEvent'.data.id \notin DOMAIN pendingReqs) =>
         /\ ~wsEvent'.raised
         /\ wsEvent'.logged
         /\ pendingReqs' = pendingReqs
         /\ promises' = promises
         /\ evals' = evals]_vars

\* C2 witness: a frame with an unknown id has been handled while a call is
\* still pending.
UnknownIdHandledWhilePending ==
    /\ IsMessage(wsEvent)
    /\ wsEvent.logged
    /\ wsEvent.data.hasResult
    /\ wsEvent.data.id \notin {promises[h].id : h \in DOMAIN promises}
    /\ Pending # {}
    /\ DOMAIN pendingReqs # {}

\* C3 (as claimed): a frame with neither result nor error is logged and
\* leaves #pendingReqs and every promise as they are, also when its id is
\* that of a pending request.
EmptyFrameIsDropped ==
    [][(IsMessage(wsEvent') /\ ~wsEvent'.data.hasResult /\ ~wsEvent'.data.hasError) =>
         /\ wsEvent'.logged
         /\ pendingReqs' = pendingReqs
         /\ promises' = promises]_vars

\* C4 (as claimed): once the connection has closed or reported an error, no
\* request is left pending.
ClosedRejectsPending ==
    wsEvent.type \in {"close", "error"} => (DOMAIN pendingReqs = {} /\ Pending = {})

\* C5: ids are handed out in strictly increasing order and never again: the
\* frames sent carry strictly increasing ids, every id in #pendingReqs is at
\* most #reqID, and no two live calls share an id or an entry.
RequestIdsAreFresh ==
    /\ \A i, j \in DOMAIN sent : i < j => sent[i].id < sent[j].id
    /\ \A i \in DOMAIN sent : 1 <= sent[i].id /\ sent[i].id <= reqID
    /\ \A k \in DOMAIN pendingReqs : k <= reqID
    /\ \A k \in DOMAIN pendingReqs :
         pendingReqs[k] \in DOMAIN promises /\ promises[pendingReqs[k]].id = k
    /\ \A h1, h2 \in DOMAIN promises : h1 # h2 => promises[h1].id # promises[h2].id

\* C5 witness: three requests have been sent and two of them are pending.
ThreeSentTwoPending ==
    /\ Len(sent) >= 3
    /\ Cardinality(DOMAIN pendingReqs) >= 2

-----------------------------------------------------------------------------
\* Properties of SafeInspect.

InnerFails(i) ==
    i.env.primary # "ok" /\ (i.env.secondary # "ok" \/ i.opts.nullish)

\* C6: SafeInspect never raises: whatever fails, it returns a string, and
\* the empty string when the inspectors fail and the coercion throws or
\* yields a non-string.
SafeInspectNeverRaises ==
    si.called =>
      /\ si.out.kind = "return"
      /\ si.out.value.by \in {"utl.inspect", "Bun.inspect", "coercion", "empty"}
      /\ (InnerFails(si) /\ si.env.coercion \in {"throw", "nonstring"}) =>
            si.out.value = EmptyString

\* C6 witness: both inspectors, the warning and the coercion have failed.
EverythingFailed ==
    /\ si.called
    /\ si.env = InspectEnv("throw", "throw", "throw", "throw")
    /\ si.out = Return(EmptyString, si.opts)

-----------------------------------------------------------------------------
\* Properties of eval.

Returned == {e \in DOMAIN evals : evals[e].pc = "returned"}

\* The integer a bigint description stands for.
DescribedBigInt(description) ==
    CASE description = <<"1", "2", "3", "n">> -> 123
      [] description = <<"-", "7", "n">> -> 0 - 7
      [] description = <<"0", "x", "1", "F", "n">> -> 31
      [] description = <<" ", "\f", "5", "U+2028", "n">> -> 5

HasDescribedBigInt(ev) ==
    ev.remoteObj.type = "bigint" /\ ev.remoteObj.description # <<>>

\* C7: a working value of type bigint with a description is never sent to
\* Runtime.callFunctionOn: eval returns at once, having stored the integer of
\* the description without its last character in _ (not thrown) or _error
\* (thrown), and its text is rendered locally from that integer and carries
\* the "Uncaught " prefix iff wasThrown.
BigIntIsRenderedLocally ==
    /\ \A r \in wire :
         r.method = "Runtime.callFunctionOn" => r.params.argument.type # "bigint"
    /\ \A e \in DOMAIN evals :
         HasDescribedBigInt(evals[e]) =>
            LET ev == evals[e]
                value == BigIntValue(DescribedBigInt(ev.remoteObj.description))
            IN /\ ev.pc = "returned"
               /\ GLOBAL[IF ev.remoteObj.wasThrown THEN "_error" ELSE "_"] = value
               /\ ev.text.uncaught = ev.remoteObj.wasThrown
               /\ ev.text.str.by # "remote"
               /\ ev.text.str.by # "empty" => ev.text.str.of = value

\* C7 witness: a thrown -7n has been stored in _error and returned as text
\* with the prefix.
ThrownBigIntReturned ==
    \E e \in Returned :
       /\ HasDescribedBigInt(evals[e])
       /\ evals[e].remoteObj.wasThrown
       /\ GLOBAL["_error"] = BigIntValue(0 - 7)
       /\ evals[e].text = Text(TRUE, Str("utl.inspect", BigIntValue(0 - 7)))

\* The evaluate results for which line 336 is reached.
IsAwaitable(result) ==
    /\ result.type = "object"
    /\ result.subtype # "null"
    /\ result.objectId # ""
    /\ result.className = "Promise"
    /\ result.preview.present

\* C8: the step that handles the reply to Runtime.evaluate sends
\* Runtime.awaitPromise iff topLevelAwaited holds and the result is a
\* non-null object with objectId, className Promise and a preview; no other
\* step sends it; for {type: object, subtype: null} the step neither awaits
\* nor throws but goes on to render.
AwaitIffDeferred ==
    [][/\ \A e \in DOMAIN evals :
            (/\ evals[e].pc = "rawEval"
             /\ evals'[e].pc # "rawEval"
             /\ promises[evals[e].call].state = "fulfilled") =>
               LET result == promises[evals[e].call].value.result
               IN /\ (evals'[e].pc = "awaitPromise") <=>
                        (evals[e].topLevelAwaited /\ IsAwaitable(result))
                  /\ (evals'[e].pc = "awaitPromise") <=>
                        (Len(sent') = Len(sent) + 1
                           /\ sent'[Len(sent')].method = "Runtime.awaitPromise")
                  /\ (result.type = "object" /\ result.subtype = "null") =>
                        /\ evals'[e].pc = "callFunctionOn"
                        /\ sent'[Len(sent')].method = "Runtime.callFunctionOn"
       /\ (Len(sent') > Len(sent) /\ sent'[Len(sent')].method = "Runtime.awaitPromise") =>
            \E e \in DOMAIN evals : evals[e].pc = "rawEval" /\ evals'[e].pc = "awaitPromise"
      ]_vars

\* C8 witness: an eval with topLevelAwaited has sent Runtime.awaitPromise for
\* the promise that Runtime.evaluate returned.
AwaitRequestOutstanding ==
    \E e \in DOMAIN evals :
       /\ evals[e].pc = "awaitPromise"
       /\ evals[e].topLevelAwaited
       /\ IsAwaitable(evals[e].result)
       /\ \E r \in wire : /\ r.method = "Runtime.awaitPromise"
                          /\ r.params.objectId = evals[e].result.objectId

\* C9 (as claimed): whenever eval has returned text, extraOut.errored is the
\* wasThrown of the reply to Runtime.evaluate.
ErroredIsEvaluateThrown ==
    \A e \in Returned : evals[e].extraOut.errored = evals[e].thrown

\* C10 (as claimed): whenever eval has returned text, extraOut.noPrintError
\* is set iff the result of Runtime.evaluate is a Promise whose preview has a
\* property status with value "rejected".
NoPrintErrorIffRejected ==
    \A e \in Returned :
       evals[e].extraOut.noPrintError <=>
          (/\ evals[e].result.type = "object"
           /\ evals[e].result.className = "Promise"
           /\ \E i \in DOMAIN evals[e].result.preview.properties :
                 evals[e].result.preview.properties[i] = Property("status", "rejected"))

-----------------------------------------------------------------------------
\* C11: an eval whose working value is not a bigint returns only from the
\* step that takes the reply to Runtime.callFunctionOn; the text it returns
\* is the string of that reply, marked "Uncaught " iff the working value was
\* thrown and its subtype is not "error".
UncaughtIffThrownNonError ==
    [][\A e \in DOMAIN evals :
          (/\ evals[e].pc # "returned"
           /\ evals'[e].pc = "returned"
           /\ evals'[e].remoteObj.type # "bigint") =>
             /\ evals[e].pc = "callFunctionOn"
             /\ evals'[e].remoteObj = evals[e].remoteObj
             /\ LET inspected == promises[evals[e].call].value
                    obj == evals[e].remoteObj
                IN /\ evals'[e].text.str =
                         Str("remote", JSValue("string", 0, inspected.result.value))
                   /\ evals'[e].text.uncaught <=>
                         (obj.wasThrown /\ obj.subtype # "error")
      ]_vars

\* C11 witness: eval has returned the rendering of a thrown Error object,
\* without the mark.
ThrownErrorReturnedUnmarked ==
    \E e \in Returned :
       /\ evals[e].remoteObj.wasThrown
       /\ evals[e].remoteObj.subtype = "error"
       /\ evals[e].extraOut.errored
       /\ evals[e].text = Text(FALSE, Str("remote", JSValue("string", 0, "text")))

\* The value a working value stands for in the REPL's global scope.
Denoted(remoteObj) ==
    IF remoteObj.type = "bigint"
    THEN BigIntValue(BigInt(SliceDropLast(remoteObj.description)).n)
    ELSE ValueOf(remoteObj)

\* The only difference between the reply to Runtime.awaitPromise and the
\* working value made of it: the marks of lines 338 and 347.
Marked(obj, deferred) ==
    [obj EXCEPT !.wasRejectedPromise = (StatusOf(deferred.preview) = "rejected")]

\* C12: when topLevelAwaited holds, the evaluate result is a Promise and the
\* reply to Runtime.awaitPromise has wasThrown false, the working value
\* becomes the awaited value; that value is the argument of the
\* Runtime.callFunctionOn request, which is told to store it in _; and when
\* eval has returned, _ holds the awaited value and _error was not written.
AwaitedValueIsRendered ==
    /\ [][\A e \in DOMAIN evals :
             (/\ evals[e].pc = "awaitPromise"
              /\ evals'[e].pc # "awaitPromise"
              /\ promises[evals[e].call].state = "fulfilled"
              /\ ~promises[evals[e].call].value.wasThrown) =>
                LET awaited == promises[evals[e].call].value.result
                IN /\ evals'[e].remoteObj = Marked(awaited, evals[e].result)
                   /\ evals'[e].pc = "callFunctionOn" =>
                        \E r \in wire' \ wire :
                           /\ r.method = "Runtime.callFunctionOn"
                           /\ r.params.argument = Marked(awaited, evals[e].result)
                           /\ ~r.params.fnWasThrown
                   /\ GLOBAL'["_error"] = GLOBAL["_error"]
         ]_vars
    /\ [](\A e \in Returned :
             (/\ evals[e].topLevelAwaited
              /\ IsAwaitable(evals[e].result)
              /\ ~evals[e].remoteObj.wasThrown) =>
                /\ GLOBAL["_"] = Denoted(evals[e].remoteObj)
                /\ GLOBAL["_"] # Denoted(evals[e].result)
                /\ GLOBAL["_error"] = Undefined
                /\ evals[e].remoteObj.type = "bigint" =>
                     \E env \in InspectEnvs :
                        evals[e].text.str =
                           SafeInspect(Denoted(evals[e].remoteObj),
                                       DefaultInspectOptions, env).value)

\* C12 witness: an awaited Promise resolved to a plain object, which is now
\* in _ and has been rendered.
AwaitedObjectReturned ==
    \E e \in Returned :
       /\ evals[e].topLevelAwaited
       /\ IsAwaitable(evals[e].result)
       /\ ~evals[e].remoteObj.wasThrown
       /\ evals[e].remoteObj.objectId = ObjPlain.objectId
       /\ GLOBAL["_"] = ValueOf(ObjPlain)
       /\ evals[e].text.str.by = "remote"

\* The step in which the line handler takes the outcome of eval e.
LineOutcome(e) == evals[e].pc = "returned" /\ evals'[e].pc = "idle"
Printed(out) == out.stdout \/ out.stderr

\* C13 (as claimed): for every outcome eval returns to the line handler, the
\* handler prints the text to at most one of stdout and stderr, and prints
\* nothing when noPrintError is set and errored is not.
LinePrintsNothingWhenSuppressedUnerrored ==
    [][\A e \in DOMAIN evals :
          LineOutcome(e) =>
             /\ ~(console'.stdout /\ console'.stderr)
             /\ Printed(console') => console'.text = evals[e].text
             /\ (evals[e].extraOut.noPrintError /\ ~evals[e].extraOut.errored) =>
                   ~Printed(console')
      ]_vars

\* C13 (amended): for every outcome eval returns to the line handler, the
\* handler prints the text to at most one of stdout and stderr, and prints
\* nothing when noPrintError is set and errored is set too.
LinePrintsNothingWhenSuppressedErrored ==
    [][\A e \in DOMAIN evals :
          LineOutcome(e) =>
             /\ ~(console'.stdout /\ console'.stderr)
             /\ Printed(console') => console'.text = evals[e].text
             /\ (evals[e].extraOut.noPrintError /\ evals[e].extraOut.errored) =>
                   ~Printed(console')
      ]_vars

\* C13 witness: the line handler has taken an outcome with both flags set
\* and printed nothing.
SuppressedErrorNotPrinted ==
    /\ proc.pc = "loop"
    /\ console.extraInfo = [errored |-> TRUE, noPrintError |-> TRUE]
    /\ ~Printed(console)

\* The state in which single-shot mode takes the outcome of eval.
SingleshotOutcome == proc.pc = "eval" /\ evals[1].pc = "returned"

\* C14 (as claimed): in single-shot mode, when eval has returned, the process
\* exits with code 0; the text goes to stdout only if printSingleshot holds
\* and neither errored nor noPrintError is set; it goes to stderr whenever
\* errored is set and noPrintError is not, whatever printSingleshot is.
SingleshotStdoutOnlyUnflagged ==
    [][SingleshotOutcome =>
          /\ proc' = Exited(0)
          /\ Printed(console') => console'.text = evals[1].text
          /\ console'.stdout =>
                /\ start.printSingleshot
                /\ ~evals[1].extraOut.errored
                /\ ~evals[1].extraOut.noPrintError
          /\ (evals[1].extraOut.errored /\ ~evals[1].extraOut.noPrintError) =>
                console'.stderr
      ]_vars

\* C14 (amended): in single-shot mode, when eval has returned, the process
\* exits with code 0; the text goes to stdout only if printSingleshot holds
\* and errored is not set; it goes to stderr whenever errored is set and
\* noPrintError is not, whatever printSingleshot is.
SingleshotStdoutOnlyUnerrored ==
    [][SingleshotOutcome =>
          /\ proc' = Exited(0)
          /\ Printed(console') => console'.text = evals[1].text
          /\ console'.stdout =>
                /\ start.printSingleshot
                /\ ~evals[1].extraOut.errored
          /\ (evals[1].extraOut.errored /\ ~evals[1].extraOut.noPrintError) =>
                console'.stderr
      ]_vars

\* C14 witness: a single-shot run without the print request has exited with
\* code 0 after it wrote the text of a thrown value to stderr.
SingleshotErrorOnStderr ==
    /\ proc = Exited(0)
    /\ ~start.printSingleshot
    /\ evals[1].pc = "returned"
    /\ evals[1].extraOut = [errored |-> TRUE, noPrintError |-> FALSE]
    /\ console.stderr
    /\ ~console.stdout
    /\ console.text = evals[1].text

\* C15 (as claimed): when eval has thrown (a rejected request or an
\* EvalError), the step of start() that takes the error is the catch of
\* lines 601-605: it prints "Internal REPL Error" to stderr and ends the
\* process with a non-zero code, in single-shot mode and in the line handler.
EvalErrorIsCaughtByStart ==
    [][\A e \in DOMAIN evals :
          (/\ evals[e].pc = "threw"
           /\ evals'[e].pc # "threw" \/ proc' # proc) =>
             /\ proc'.pc = "exited"
             /\ proc'.exitCode # 0
             /\ console'.stderr
             /\ console'.text = InternalError
      ]_vars

\* The activations of eval that have been called and have not finished.
InProgress == {e \in DOMAIN evals : evals[e].pc \in {"rawEval", "awaitPromise", "callFunctionOn"}}

\* C16 (as claimed): the line handler serializes evaluations: at most one
\* call of eval is in progress at any time, and the handler sends no
\* Runtime.evaluate while an earlier eval has not finished.
EvalsAreSerialized ==
    /\ [](Cardinality(InProgress) <= 1)
    /\ [][(InProgress # {} /\ Len(sent') > Len(sent)) =>
             sent'[Len(sent')].method # "Runtime.evaluate"]_vars

\* Request id has been answered: it is neither with the inspector nor in
\* #pendingReqs.
Answered(id) == id \notin WireIds /\ id \notin DOMAIN pendingReqs

\* C17: Runtime.enable is sent when the socket opens (never, if it closes
\* without having opened), as the first request and never again; a second
\* request is sent only after the reply to Runtime.enable has been taken; ready is resolved only after the replies to
\* Runtime.enable and to the evaluate of globalThis have been taken, and
\* start() sends no request of its own, starts no evaluation and writes
\* nothing before that (if the process ends before that, it is the runtime
\* that ends it, for the rejected chain).
EnableOnceBeforeAnyEvaluate ==
    /\ readyState = "connecting" => sent = <<>>
    /\ readyState = "open" => Len(sent) >= 1
    /\ \A i \in DOMAIN sent : (sent[i].method = "Runtime.enable") <=> (i = 1)
    /\ Len(sent) >= 2 =>
          /\ Answered(1)
          /\ ready.pc \in {"globalThis", "resolved", "rejected"}
          /\ sent[2].method = "Runtime.evaluate"
    /\ ready.pc = "resolved" =>
          /\ Len(sent) >= 2
          /\ Answered(1)
          /\ Answered(2)
          /\ globalObjectID = ObjGlobal.objectId
    /\ (Len(sent) >= 3 \/ proc.pc \notin {"ready", "exited"}) => ready.pc = "resolved"
    /\ ready.pc # "resolved" =>
          /\ evals[1] = IdleEval
          /\ console = NoOutput
          /\ proc.pc = "exited" => (ready.pc = "rejected" /\ proc.exitCode = 1)

\* C17 witness: ready is resolved and start() has sent the evaluate of the
\* single-shot code as the third request.
EvaluateSentAfterReady ==
    /\ ready.pc = "resolved"
    /\ Len(sent) = 3
    /\ sent[1].method = "Runtime.enable"
    /\ sent[3].method = "Runtime.evaluate"
    /\ evals[1].pc = "rawEval"

\* The reply p that eval ev is waiting for breaks what eval expects of it.
BreaksProtocol(ev, p) ==
    LET r == p.value.result
    IN /\ p.state = "fulfilled"
       /\ \/ /\ ev.pc = "rawEval"
             /\ r.type = "object"
             /\ r.subtype # "null"
             /\ r.objectId = "" \/ (r.className = "Promise" /\ ~r.preview.present)
          \/ /\ ev.pc \in {"rawEval", "awaitPromise"}
             /\ r.type = "bigint"
             /\ r.description = <<>>
          \/ /\ ev.pc = "callFunctionOn"
             /\ p.value.wasThrown \/ r.type # "string"

\* C20: when the reply eval waits for breaks the protocol (a non-null object
\* without objectId, a Promise without preview, a bigint without
\* description, a render reply that was thrown or is not a string), the step
\* that takes it makes eval throw an EvalError: no text is returned and no
\* request is sent, then or later, and the caller gets the error.
ProtocolErrorIsThrown ==
    [][/\ \A e \in DOMAIN evals :
            (/\ evals[e].pc \in {"rawEval", "awaitPromise", "callFunctionOn"}
             /\ evals'[e] # evals[e]
             /\ BreaksProtocol(evals[e], promises[evals[e].call])) =>
               /\ evals'[e].pc = "threw"
               /\ evals'[e].error = "EvalError"
               /\ evals'[e].text = NoText
               /\ sent' = sent
       /\ \A e \in DOMAIN evals :
            evals[e].pc = "threw" =>
               /\ sent' = sent
               /\ evals'[e].pc = "threw"
               /\ evals'[e].text = NoText
               /\ proc' # proc => (proc' = Exited(1) /\ console'.text = InternalError)
      ]_vars

\* C20 witness: eval has thrown an EvalError on the reply to its
\* Runtime.callFunctionOn request, the last request sent.
RenderReplyRefused ==
    /\ evals[1].pc = "threw"
    /\ evals[1].error = "EvalError"
    /\ Len(sent) = 4
    /\ sent[4].method = "Runtime.callFunctionOn"
    /\ Answered(4)

-----------------------------------------------------------------------------
\* The declarations of text s taken in source order: the positions where the
\* pattern matches and that no earlier declaration covers.
Declarations(s) ==
    LET K == {i \in DOMAIN s : s[i] \in Keywords}
    IN CHOOSE P \in SUBSET K :
          \A i \in K :
             (i \in P) <=> /\ MatchAt(s, i).ok
                           /\ \A j \in P : j < i => j + MatchAt(s, j).len <= i

\* The hoisted declarations for the declarations P of s from position i on:
\* let for const, the original keyword otherwise.
RECURSIVE HoistedFor(_, _, _)
HoistedFor(s, P, i) ==
    IF i > Len(s) THEN <<>>
    ELSE IF i \in P
    THEN <<IF s[i] = "const" THEN "let" ELSE s[i], " ">> \o MatchAt(s, i).varname
            \o <<";">> \o HoistedFor(s, P, i + 1)
    ELSE HoistedFor(s, P, i + 1)

\* s from position i on, without the keyword and the white space of each
\* declaration of P: the bare identifier is what is left of it.
RECURSIVE BareFor(_, _, _)
BareFor(s, P, i) ==
    IF i > Len(s) THEN <<>>
    ELSE IF \E p \in P : p <= i /\ i < p + MatchAt(s, p).len - Len(MatchAt(s, p).varname)
    THEN BareFor(s, P, i + 1)
    ELSE <<s[i]>> \o BareFor(s, P, i + 1)

\* What C18 says of a finished call, but for what remains in the closure.
HoistsEveryDeclaration(h) ==
    LET P == Declarations(h.text)
    IN /\ h.text = Wrap(transform.src)
       /\ h.hoisted = HoistedFor(h.text, P, 1)
       /\ h.transformed = BareFor(h.text, P, 1)
       /\ h.out = h.hoisted \o h.transformed
       /\ h.transformed[1] = Opener

\* C18 (as claimed): tryProcessTopLevelAwait emits, for every declaration of
\* the wrapped text in source order, one hoisted declaration (let for const,
\* the original keyword otherwise) and leaves the bare identifier in its
\* place; the output is the hoisted declarations, in order, followed by the
\* wrapped body; and the pattern matches nowhere in that body.
NoDeclarationLeftInClosure ==
    transform.pc = "hoisted" =>
       /\ HoistsEveryDeclaration(transform.first)
       /\ \A i \in DOMAIN transform.first.transformed :
             ~MatchAt(transform.first.transformed, i).ok

\* C18 (amended): as claimed, except that the pattern can still match in the
\* body where the match takes in a bare identifier that replaced a
\* declaration; it matches nowhere else.
NoDeclarationLeftButAtReplaced ==
    transform.pc = "hoisted" =>
       /\ HoistsEveryDeclaration(transform.first)
       /\ \A i \in DOMAIN transform.first.transformed :
             LET m == MatchAt(transform.first.transformed, i)
             IN m.ok => \E k \in i .. i + m.len - 1 : transform.first.replaced[k]

\* C18 witness: `const x\nawait` has been transformed to
\* `let x;(async()=>{x\nreturn await;})();`.
ConstHoistedAsLet ==
    /\ transform.pc = "hoisted"
    /\ transform.src = <<"const", " ", "x", "\n", "await">>
    /\ transform.first.out =
          <<"let", " ", "x", ";", Opener, "x", "\n", "return", " ", "await", Closer>>

\* The identifiers that text declares: the names of its declarations.
Declared(text) == {MatchAt(text, p).varname : p \in Declarations(text)}

\* C19 (as claimed): running the hoisting step again on the text the
\* function returned leaves the set of identifiers declared outside the
\* closure as it was.
RehoistKeepsDeclaredSet ==
    transform.pc = "rehoisted" =>
       /\ transform.second.text = transform.first.out
       /\ transform.second.out = transform.second.hoisted \o transform.second.transformed
       /\ Declared(transform.second.hoisted) = Declared(transform.first.hoisted)

\* C19 (amended): running the hoisting step again keeps every identifier
\* declared outside the closure declared there, in the same order and with
\* the same keyword; the set is unchanged when the pattern matches nowhere
\* in the closure of the text given, otherwise the second run declares the
\* identifiers it matches there as well.
RehoistKeepsDeclared ==
    transform.pc = "rehoisted" =>
       LET one == transform.first
           two == transform.second
           more == ReplaceAll(one.transformed, 1).hoisted
       IN /\ two.text = one.out
          /\ two.out = two.hoisted \o two.transformed
          /\ two.hoisted = one.hoisted \o more
          /\ Declared(one.hoisted) \subseteq Declared(two.hoisted)
          /\ (\A i \in DOMAIN one.transformed : ~MatchAt(one.transformed, i).ok) =>
                Declared(two.hoisted) = Declared(one.hoisted)

\* C19 witness: the hoisting step has run again on
\* `let x;(async()=>{x\nreturn await;})();` and declares x, as before.
RehoistedOnce ==
    /\ transform.pc = "rehoisted"
    /\ transform.first.hoisted = <<"let", " ", "x", ";">>
    /\ transform.second.hoisted = <<"let", " ", "x", ";">>
    /\ transform.second.out =
          <<"let", " ", "x", ";", "x", ";", Opener, "x", "\n", "return", " ", "await", Closer>>

-----------------------------------------------------------------------------
\* Properties of the unsupported shapes, of the order of the requests of one
\* eval call, of the global bindings and of the line loop.

\* C21 (as claimed): a result of Runtime.evaluate with subtype "iterator" is
\* refused: the eval call that received it sends no Runtime.callFunctionOn
\* for it and returns no text, it throws.
IteratorIsRefused ==
    \A e \in DOMAIN evals :
       evals[e].result.subtype = "iterator" =>
          evals[e].pc \notin {"callFunctionOn", "returned"}

\* The methods of the requests the eval call of single-shot mode has sent:
\* the requests after the two of ready.
EvalMethods == [i \in 1 .. Len(sent) - 2 |-> sent[i + 2].method]
EvalIds == {sent[i].id : i \in 3 .. Len(sent)}

\* C22: one eval call sends Runtime.evaluate, then at most one
\* Runtime.awaitPromise, then at most one Runtime.callFunctionOn; when it
\* sends a request, the reply to the request before has been taken (that
\* request is neither with the inspector nor in #pendingReqs); at most one
\* of its requests is in #pendingReqs at any time, and the one there is the
\* one the call is waiting for.
EvalRequestsInOrder ==
    /\ EvalMethods \in
          {<<>>,
           <<"Runtime.evaluate">>,
           <<"Runtime.evaluate", "Runtime.awaitPromise">>,
           <<"Runtime.evaluate", "Runtime.callFunctionOn">>,
           <<"Runtime.evaluate", "Runtime.awaitPromise", "Runtime.callFunctionOn">>}
    /\ \A i \in 3 .. Len(sent) - 1 : Answered(sent[i].id)
    /\ Cardinality(EvalIds \cap DOMAIN pendingReqs) <= 1
    /\ \A id \in EvalIds \cap DOMAIN pendingReqs :
          /\ id = sent[Len(sent)].id
          /\ evals[1].call = pendingReqs[id]
    /\ evals[1].pc = "rawEval" => Len(EvalMethods) = 1
    /\ evals[1].pc = "awaitPromise" => Len(EvalMethods) = 2
    /\ evals[1].pc = "callFunctionOn" =>
          EvalMethods[Len(EvalMethods)] = "Runtime.callFunctionOn"

\* C22 witness: an eval call has sent its three requests one after the other
\* and has returned text; none of them is pending.
ThreeRequestsInOrder ==
    /\ evals[1].pc = "returned"
    /\ EvalMethods = <<"Runtime.evaluate", "Runtime.awaitPromise", "Runtime.callFunctionOn">>
    /\ \A id \in EvalIds : Answered(id)

\* The binding eval writes for a working value, the one it leaves alone and
\* the value it stores: the integer of a bigint's description, else the
\* value the remote object stands for.
BindingOf(remoteObj) == IF remoteObj.wasThrown THEN "_error" ELSE "_"
OtherBindingOf(remoteObj) == IF remoteObj.wasThrown THEN "_" ELSE "_error"
StoredValue(remoteObj) ==
    IF remoteObj.type = "bigint"
    THEN BigIntValue(DescribedBigInt(remoteObj.description))
    ELSE ValueOf(remoteObj)

\* C23: when eval has returned text, on the bigint path and on the path of
\* Runtime.callFunctionOn alike, the working value is in _ if its wasThrown
\* is false and in _error if it is true, and the other binding still has the
\* value it had before the evaluation (undefined, as ready left it); no step
\* taken after ready has resolved writes both bindings.
ReturnedWroteOneBinding ==
    /\ [](evals[1].pc = "returned" =>
            /\ GLOBAL[BindingOf(evals[1].remoteObj)] = StoredValue(evals[1].remoteObj)
            /\ GLOBAL[OtherBindingOf(evals[1].remoteObj)] = Undefined)
    /\ [][ready.pc = "resolved" =>
            \/ GLOBAL'["_"] = GLOBAL["_"]
            \/ GLOBAL'["_error"] = GLOBAL["_error"]]_vars

\* C23 witness: a thrown value that is not a bigint has been rendered by
\* Runtime.callFunctionOn and returned as text: it is in _error, and _ is
\* still undefined.
ThrownValueInErrorBinding ==
    /\ evals[1].pc = "returned"
    /\ evals[1].remoteObj.wasThrown
    /\ evals[1].remoteObj.type # "bigint"
    /\ evals[1].text.str.by = "remote"
    /\ GLOBAL["_error"] = ValueOf(evals[1].remoteObj)
    /\ GLOBAL["_error"] # Undefined
    /\ GLOBAL["_"] = Undefined

\* A frame for a request id that was handed out and is not (or no longer) in
\* #pendingReqs.
IsDuplicate(ev) ==
    /\ IsMessage(ev)
    /\ ev.data.id \in 1 .. reqID
    /\ ev.data.id \notin DOMAIN pendingReqs

\* C24: a call is completed at most once.  The frame handled for an id in
\* #pendingReqs takes the id out of it; an id that has left #pendingReqs
\* never comes back (new entries carry new ids); a promise that has been
\* settled is not settled again; a later frame with that id is logged, does
\* not raise, and changes neither #pendingReqs nor any promise nor any
\* evaluation.
CompletedAtMostOnce ==
    /\ [][(IsMessage(wsEvent') /\ wsEvent'.data.id \in DOMAIN pendingReqs) =>
             wsEvent'.data.id \notin DOMAIN pendingReqs']_vars
    /\ [][\A k \in DOMAIN pendingReqs' \ DOMAIN pendingReqs : k > reqID]_vars
    /\ [][\A h \in DOMAIN promises \cap DOMAIN promises' :
             promises[h].state # "pending" => promises'[h] = promises[h]]_vars
    /\ [][IsDuplicate(wsEvent') =>
             /\ wsEvent'.logged
             /\ ~wsEvent'.raised
             /\ pendingReqs' = pendingReqs
             /\ promises' = promises
             /\ evals' = evals]_vars

\* C24 witness: a second reply for a request that has been answered has
\* been handled and logged while another call is pending.
DuplicateReplyDropped ==
    /\ wsEvent.type = "message"
    /\ wsEvent.data.json
    /\ wsEvent.data.hasResult
    /\ wsEvent.logged
    /\ wsEvent.data.id \in {sent[i].id : i \in DOMAIN sent}
    /\ Answered(wsEvent.data.id)
    /\ Pending # {}
    /\ \E k \in DOMAIN pendingReqs : k # wsEvent.data.id

\* C25 (as claimed): every request that is with the inspector and has not
\* been answered has its entry in #pendingReqs, and the promise of that entry
\* is pending; so a reply (a frame with result or error) to a request that
\* was sent always finds the entry of its id.
SentUnansweredIsRegistered ==
    /\ [](\A r \in wire :
             /\ r.id \in DOMAIN pendingReqs
             /\ pendingReqs[r.id] \in Pending)
    /\ [][(CarriesReply(wsEvent') /\ wsEvent'.data.id \in WireIds) =>
             wsEvent'.data.id \in DOMAIN pendingReqs]_vars

\* The reply a line handler in progress waits for can still reach it: the
\* connection is not closed and the entry of the request is in #pendingReqs.
\* A handler for which this is false waits for ever: no step reopens the
\* connection, a closed connection delivers no frame, and a frame whose id
\* has no entry is dropped.
CanBeAnswered(e) ==
    LET p == promises[evals[e].call]
    IN p.state = "pending" => (readyState # "closed" /\ p.id \in DOMAIN pendingReqs)

\* C26 (as claimed), as the properties of finite runs it rests on: a line
\* handler that waits for a reply can still get one, also after the
\* connection has closed; the step that ends a line handler, after eval
\* returned or threw, prompts or ends the process; and so does every step of
\* the loop that writes without eval, for a command or for code the
\* transpiler refuses.
LineLeadsToPromptOrExit ==
    /\ [](\A e \in InProgress : CanBeAnswered(e))
    /\ [][\A e \in DOMAIN evals :
             (evals[e].pc \in {"returned", "threw"} /\ evals'[e].pc = "idle") =>
                (console'.prompt \/ proc'.pc = "exited")]_vars
    /\ [][(proc.pc = "loop" /\ console' # console /\ evals' = evals) =>
             (console'.prompt \/ proc'.pc = "exited")]_vars

\* C27 (as claimed): '@@bunReplInternals' is defined on the global object
\* only while an eval call waits for the reply to Runtime.callFunctionOn;
\* when the call has returned or thrown, also because that request was
\* answered with an error, the property is gone.
InternalsOnlyWhileRendering ==
    GLOBAL[INTERNALS] # Absent => \E e \in DOMAIN evals : evals[e].pc = "callFunctionOn"

====
